---- MODULE Spec2Model ----
(***************************************************************************)
(* nwbinspector: the check configurator (configure_checks) and the         *)
(* inspection engine (inspect_nwb, run_checks) of                          *)
(* src/nwbinspector/nwbinspector.py, as a state machine, with inspect_all,  *)
(* get_s3_urls_and_dandi_paths of src/nwbinspector/tools.py, the check     *)
(* registry and organize_messages.                                         *)
(*                                                                         *)
(* A check function is identified by its __name__.  Its registry           *)
(* attributes are .importance (mutable: configure_checks assigns it) and   *)
(* .neurodata_type.  An Optional[...] argument is a record                 *)
(* [given, val]: given = FALSE is Python's None.                           *)
(***************************************************************************)
EXTENDS Integers, Sequences, FiniteSets, TLC

\* ---------------------------------------------------------------- bounds
\* longest `checks` list handed to configure_checks / inspect_nwb
MaxChecks == 2
\* longest `select` / `ignore` list
MaxNames == 2
\* most violations pynwb.validate reports for one file
MaxValidation == 2
\* most objects in nwbfile.objects
MaxObjects == 2
\* most findings one call of a check function produces
MaxFindings == 2

\* ------------------------------------------------------------- registry
\* Check functions of checks/nwbfile_metadata.py, by __name__.
MetadataChecks == {"check_experimenter_form", "check_session_start_time_future_date"}

\* The check functions of the model: those two and a check on TimeSeries that
\* tests/test_inspector.py expects findings of.
Rules == MetadataChecks \cup {"check_regular_timestamps"}

\* importance given to @register_check
DefaultImportance(r) ==
    CASE r = "check_experimenter_form" -> "BEST_PRACTICE_SUGGESTION"
      [] r = "check_session_start_time_future_date" -> "CRITICAL"
      [] r = "check_regular_timestamps" -> "BEST_PRACTICE_VIOLATION"

\* neurodata_type given to @register_check
NeurodataType(r) ==
    IF r = "check_regular_timestamps" THEN "TimeSeries" ELSE "NWBFile"

\* The classes of the objects of a file; ElectricalSeries is a subclass of
\* TimeSeries.
ObjectTypes == {"NWBFile", "TimeSeries", "ElectricalSeries"}

\* issubclass(t, u)
IsSubclass(t, u) == t = u \/ (t = "ElectricalSeries" /\ u = "TimeSeries")

\* The members of the Importance enum the source names.
OrdinaryLevels == {"BEST_PRACTICE_SUGGESTION", "BEST_PRACTICE_VIOLATION", "CRITICAL"}
ReservedLevels == {"PYNWB_VALIDATION", "ERROR"}
Importance == OrdinaryLevels \cup ReservedLevels

\* Importance.<member>.value: ascending severity, the two reserved levels on top.
ImportanceValue(l) ==
    CASE l = "BEST_PRACTICE_SUGGESTION" -> 0
      [] l = "BEST_PRACTICE_VIOLATION" -> 1
      [] l = "CRITICAL" -> 2
      [] l = "PYNWB_VALIDATION" -> 3
      [] l = "ERROR" -> 4

\* ------------------------------------------------------ argument values
None == [given |-> FALSE, val |-> <<>>]
Some(v) == [given |-> TRUE, val |-> v]

\* all sequences over S of length 0..n
RECURSIVE SeqsUpTo(_, _)
SeqsUpTo(S, n) ==
    IF n = 0 THEN {<<>>}
    ELSE LET shorter == SeqsUpTo(S, n - 1)
         IN  shorter \cup {Append(s, x) : s \in {t \in shorter : Len(t) = n - 1}, x \in S}

\* sequences over S of length 0..n without repetition
DistinctSeqs(S, n) ==
    {s \in SeqsUpTo(S, n) : \A i, j \in 1..Len(s) : i # j => s[i] # s[j]}

\* the `checks` argument
CheckLists == SeqsUpTo(MetadataChecks, MaxChecks)
\* the `select` and `ignore` arguments: None, or a list of names
NameArgs == {None} \cup {Some(s) : s \in SeqsUpTo(MetadataChecks, MaxNames)}
\* the `importance_threshold` argument: a member of Importance, or something else
Thresholds == Importance \cup {"NOT_A_LEVEL"}
\* the keys of a `config` mapping
ConfigKeys == OrdinaryLevels \cup {"SKIP", "ERROR", "NOT_A_LEVEL"}
\* one item of config.items(): importance_name, func_names
ConfigItems == [key : ConfigKeys, names : (SUBSET MetadataChecks) \ {{}}]
\* the `config` argument: None, or a mapping given by its items in iteration order
ConfigArgs ==
    {None} \cup {Some(<<i>>) : i \in ConfigItems}
           \cup {Some(<<p[1], p[2]>>) :
                     p \in {q \in ConfigItems \X ConfigItems :
                               q[1].key # q[2].key /\ q[1].names = q[2].names}}

\* ----------------------------------------------------- configure_checks
\* line 72 as it would be with `select is None` for `select is not None`
OptionsConflictSelectNone(ignore, select) == ignore.given /\ ~select.given

\* line 72: both options given
OptionsConflict(ignore, select) == ignore.given /\ select.given

\* line 74: importance_threshold not in Importance
ThresholdInvalid(thr) == thr \notin Importance

\* lines 83-87, the inner loop over config.items() for one check: `continue` on
\* "SKIP" goes to the next item; Importance[importance_name] raises KeyError for
\* a name that is no member.
RECURSIVE ApplyItems(_, _, _, _)
ApplyItems(check, items, i, imp) ==
    IF i > Len(items) THEN [err |-> "none", imp |-> imp]
    ELSE IF check \in items[i].names
         THEN IF items[i].key = "SKIP"
              THEN ApplyItems(check, items, i + 1, imp)
              ELSE IF items[i].key \in Importance
                   THEN ApplyItems(check, items, i + 1, [imp EXCEPT ![check] = items[i].key])
                   ELSE [err |-> "KeyError", imp |-> imp]
         ELSE ApplyItems(check, items, i + 1, imp)

\* lines 81-88, the outer loop: every check is appended to checks_out after
\* its inner loop; an exception leaves the assignments made so far.
RECURSIVE ApplyConfig(_, _, _, _, _)
ApplyConfig(checks, items, c, imp, acc) ==
    IF c > Len(checks) THEN [err |-> "none", imp |-> imp, out |-> acc]
    ELSE LET r == ApplyItems(checks[c], items, 1, imp)
         IN  IF r.err # "none"
             THEN [err |-> r.err, imp |-> r.imp, out |-> <<>>]
             ELSE ApplyConfig(checks, items, c + 1, r.imp, Append(acc, checks[c]))

\* the truth value of an Optional list
Truthy(arg) == arg.given /\ Len(arg.val) > 0

InList(x, s) == \E k \in 1..Len(s) : s[k] = x

\* lines 92-95 as they would be if select were walked instead of checks_out:
\* the selected checks come out in the order of select
RECURSIVE InSelectOrder(_, _, _)
InSelectOrder(checks_out, names, k) ==
    IF k > Len(names) THEN <<>>
    ELSE SelectSeq(checks_out, LAMBDA x : x = names[k]) \o InSelectOrder(checks_out, names, k + 1)

ApplySelectIgnoreInSelectOrder(checks_out, ignore, select) ==
    IF Truthy(select)
    THEN InSelectOrder(checks_out, select.val, 1)
    ELSE IF Truthy(ignore)
         THEN SelectSeq(checks_out, LAMBDA x : ~InList(x, ignore.val))
         ELSE checks_out

\* lines 92-95 as they would be without the elif branch: ignore has no effect
ApplySelectIgnoreWithoutIgnore(checks_out, ignore, select) ==
    IF Truthy(select)
    THEN SelectSeq(checks_out, LAMBDA x : InList(x, select.val))
    ELSE checks_out

\* lines 92-95
ApplySelectIgnore(checks_out, ignore, select) ==
    IF Truthy(select)
    THEN SelectSeq(checks_out, LAMBDA x : InList(x, select.val))
    ELSE IF Truthy(ignore)
         THEN SelectSeq(checks_out, LAMBDA x : ~InList(x, ignore.val))
         ELSE checks_out

\* lines 96-97 as they would be if the threshold were compared with the
\* importance the check was registered with
ApplyThresholdToRegistered(checks_out, thr, imp) ==
    SelectSeq(checks_out,
              LAMBDA x : ImportanceValue(DefaultImportance(x)) >= ImportanceValue(thr))

\* lines 96-97: every member of Importance is truthy
ApplyThreshold(checks_out, thr, imp) ==
    SelectSeq(checks_out, LAMBDA x : ImportanceValue(imp[x]) >= ImportanceValue(thr))

\* configure_checks(checks, config, ignore, select, importance_threshold), run on
\* a registry whose .importance attributes are imp: what it raises, what it
\* returns, and the .importance attributes it leaves.
ConfigureChecks(checks, config, ignore, select, thr, imp) ==
    IF OptionsConflict(ignore, select)
    THEN [err |-> "ValueError", out |-> <<>>, imp |-> imp]
    ELSE IF ThresholdInvalid(thr)
    THEN [err |-> "ValueError", out |-> <<>>, imp |-> imp]
    ELSE LET c == IF config.given
                  THEN ApplyConfig(checks, config.val, 1, imp, <<>>)
                  ELSE [err |-> "none", imp |-> imp, out |-> checks]
         IN  IF c.err # "none"
             THEN [err |-> c.err, out |-> <<>>, imp |-> c.imp]
             ELSE [err |-> "none",
                   out |-> ApplyThreshold(ApplySelectIgnore(c.out, ignore, select), thr, c.imp),
                   imp |-> c.imp]


\* ------------------------------------------------------------- messages
\* InspectorMessage.  A field left at its default None holds NoText (message,
\* location), 0 (object) or "None" (file, check_function_name).
NoText == <<"None", 0>>

\* the file argument of inspect_nwb and its Path(...).name
nwbfile_path == "/data/testing.nwb"
file_name == "testing.nwb"

\* The k-th error pynwb.validate reports: reason, name, location.
ValidationError(k) ==
    [reason |-> <<"reason", k>>, name |-> <<"validator", k>>, location |-> <<"location", k>>]

\* lines 244-250
ValidationMessage(e) ==
    [message |-> e.reason, importance |-> "PYNWB_VALIDATION",
     check_function_name |-> e.name, object |-> 0, location |-> e.location,
     file |-> file_name]

\* lines 254-258
ReadErrorMessage ==
    [message |-> <<"traceback", 0>>, importance |-> "ERROR",
     check_function_name |-> <<"io.read exception", 0>>, object |-> 0,
     location |-> NoText, file |-> "None"]

\* lines 280-284
CheckErrorMessage(check) ==
    [message |-> <<"traceback", 0>>, importance |-> "ERROR",
     check_function_name |-> <<check, 0>>, object |-> 0, location |-> NoText,
     file |-> "None"]

\* The k-th finding of a check function on the o-th object, with the fields the
\* register_check wrapper fills in from the check function and the object.
Finding(check, o, k, imp) ==
    [message |-> <<"finding", k>>, importance |-> imp[check],
     check_function_name |-> <<check, 0>>, object |-> o, location |-> NoText,
     file |-> "None"]

\* line 260
SetFile(m) == [m EXCEPT !.file = nwbfile_path]

\* What a call of a check function can do.  check_experimenter_form is a
\* generator function: the call returns a generator, which yields n findings
\* and then ends or raises (iterating a None experimenter: n = 0).  The others
\* return None or one InspectorMessage, or raise.
Outcomes(check) ==
    IF check = "check_experimenter_form"
    THEN [kind : {"iterable"}, n : 0..MaxFindings, raises : BOOLEAN]
    ELSE {[kind |-> "none", n |-> 0, raises |-> FALSE],
          [kind |-> "message", n |-> 1, raises |-> FALSE],
          [kind |-> "raise", n |-> 0, raises |-> TRUE]}

\* ------------------------------------------ get_s3_urls_and_dandi_paths
\* the assets of a dandiset: at most MaxAssets
MaxAssets == 3

\* what asset.get_content_url(follow_redirects=1, strip_query=True) can return
Urls == {"https://s3/blobs/1", "https://s3/blobs/2"}

\* dandiset.get_assets(): every asset has its own path (the number stands for
\* it), and two assets can have the same content and so the same S3 URL
AssetLists ==
    {s \in SeqsUpTo([url : Urls, path : 1..MaxAssets], MaxAssets) :
        \A i, j \in 1..Len(s) : i # j => s[i].path # s[j].path}

\* the values of n_jobs: one job, a pool of two workers, a pool of the default size
NJobs == {1, 2, -1}

\* line 41: dict(); 0 stands for a key the dict does not have
EmptyDict == [u \in Urls |-> 0]

\* lines 54 and 58 with 62-64: s3_urls_to_dandi_paths.update({url: asset.path})
Update(d, asset) == [d EXCEPT ![asset.url] = asset.path]

\* lines 57-58: the dict after the assets k, k + 1, ... in the order of get_assets()
RECURSIVE UpdateInOrder(_, _, _)
UpdateInOrder(d, assets, k) ==
    IF k > Len(assets) THEN d ELSE UpdateInOrder(Update(d, assets[k]), assets, k + 1)

NoS3 ==
    [pc |-> "idle", valid |-> TRUE, n_jobs |-> 1, assets |-> <<>>, done |-> {},
     urls |-> EmptyDict]

\* ------------------------------------------------------- register_check
\* the function objects one name can stand for: the function as first
\* imported and the ones a reload of its module defines
MaxReloads == 2

\* a function object: its __name__ and which definition of it it is
Functions == [name : Rules, fn : 1..MaxReloads]

\* the registry binds the name
Bound(catalog, name) == \E k \in 1..Len(catalog) : catalog[k].name = name

\* the function the registry binds the name to
Binding(catalog, name) == catalog[CHOOSE k \in 1..Len(catalog) : catalog[k].name = name]

\* register as it would be if a reloaded function replaced the registered one
RegisterCheckReplacing(catalog, f) ==
    IF Bound(catalog, f.name)
    THEN [err |-> "none",
          catalog |-> [k \in 1..Len(catalog) |->
                          IF catalog[k].name = f.name THEN f ELSE catalog[k]]]
    ELSE [err |-> "none", catalog |-> Append(catalog, f)]

\* register: a new name is added at the end; the same function again changes
\* nothing; another function under a bound name is a DuplicateNameError
RegisterCheck(catalog, f) ==
    IF Bound(catalog, f.name)
    THEN IF Binding(catalog, f.name) = f
         THEN [err |-> "none", catalog |-> catalog]
         ELSE [err |-> "DuplicateNameError", catalog |-> catalog]
    ELSE [err |-> "none", catalog |-> Append(catalog, f)]

NoRegistration ==
    [called |-> FALSE, f |-> [name |-> "None", fn |-> 0], before |-> <<>>, err |-> "none"]

\* ----------------------------------------------------- organize_messages
\* the messages of one call: at most MaxMessages
MaxMessages == 3

\* the attributes of InspectorMessage the messages are grouped by here
LevelAttributes == {"importance", "file"}

\* the file names of the messages, in lexical order
FileNames == <<"file1.nwb", "file2.nwb">>

\* the i-th message of a call: its text tells it from the others
OrganizedMessages ==
    {[message : {<<"test", i>>}, importance : OrdinaryLevels,
      file : {FileNames[k] : k \in 1..Len(FileNames)}] : i \in 1..MaxMessages}

\* the lists of messages organize_messages is called with
MessageLists ==
    {s \in SeqsUpTo(UNION OrganizedMessages, MaxMessages) :
        \A i \in 1..Len(s) : s[i].message = <<"test", i>>}

\* the levels of a call: one or more attributes without repetition, or the
\* free text "message", which is no level
LevelLists ==
    (DistinctSeqs(LevelAttributes, Cardinality(LevelAttributes)) \ {<<>>}) \cup {<<"message">>}

\* the reverse argument for the levels: None, or one truth value per level
ReverseArgs(levels) == {None} \cup {Some(r) : r \in [1..Len(levels) -> BOOLEAN]}

\* getattr(message, level)
Attr(m, level) == IF level = "importance" THEN m.importance ELSE m.file

\* the place of a key in the order of its level: importance by rank, any
\* other attribute lexically
KeyRank(level, key) ==
    IF level = "importance" THEN ImportanceValue(key)
    ELSE CHOOSE k \in 1..Len(FileNames) : FileNames[k] = key

\* the keys in the order of their level, descending when rev
RECURSIVE SortKeys(_, _, _)
SortKeys(keys, level, rev) ==
    IF keys = {} THEN <<>>
    ELSE LET first == CHOOSE x \in keys : \A y \in keys :
                          IF rev THEN KeyRank(level, x) >= KeyRank(level, y)
                                 ELSE KeyRank(level, x) <= KeyRank(level, y)
         IN  <<first>> \o SortKeys(keys \ {first}, level, rev)

\* reverse=None stands for [False] * len(levels)
ReverseOf(levels, reverse) ==
    IF reverse.given THEN reverse.val ELSE [k \in 1..Len(levels) |-> FALSE]

\* the key order of level d as it would be if the first entry of reverse
\* decided the direction of every level
KeyOrderByFirstEntry(keys, levels, reverse, d) ==
    SortKeys(keys, levels[d], ReverseOf(levels, reverse)[1])

\* the key order of level d: the d-th entry of reverse decides its direction
KeyOrder(keys, levels, reverse, d) ==
    SortKeys(keys, levels[d], ReverseOf(levels, reverse)[d])

\* the group of a key as it would be if a message were put at the front
GroupNewestFirst(messages, level, key) ==
    LET g == SelectSeq(messages, LAMBDA m : Attr(m, level) = key)
    IN  [k \in 1..Len(g) |-> g[Len(g) + 1 - k]]

\* the messages of one key of a level, in input order
Group(messages, level, key) == SelectSeq(messages, LAMBDA m : Attr(m, level) = key)

\* every entry of the sub-mapping under its key
Under(key, entries) ==
    [k \in 1..Len(entries) |-> [entries[k] EXCEPT !.path = <<key>> \o @]]

\* The nested mapping for the levels d, d + 1, ..., written as the list of its
\* leaves in iteration order, each with the keys that lead to it: the
\* messages are split by their value of level d, the keys are ordered, and
\* every group is organized by the remaining levels.  A list of messages
\* without levels left is a leaf.
RECURSIVE Organize(_, _, _, _)
RECURSIVE OrganizeKeys(_, _, _, _, _, _)
Organize(messages, levels, reverse, d) ==
    IF d > Len(levels) THEN << [path |-> << >>, messages |-> messages] >>
    ELSE OrganizeKeys(messages, levels, reverse, d,
             KeyOrder({Attr(messages[k], levels[d]) : k \in 1..Len(messages)},
                      levels, reverse, d), 1)

\* the entries of the keys i, i + 1, ... of level d
OrganizeKeys(messages, levels, reverse, d, keys, i) ==
    IF i > Len(keys) THEN <<>>
    ELSE Under(keys[i], Organize(Group(messages, levels[d], keys[i]), levels, reverse, d + 1))
         \o OrganizeKeys(messages, levels, reverse, d, keys, i + 1)

\* organize_messages(messages, levels, reverse): "message" among the levels
\* is an assertion error
OrganizeMessagesCall(messages, levels, reverse) ==
    IF \E k \in 1..Len(levels) : levels[k] = "message"
    THEN [err |-> "AssertionError", result |-> <<>>]
    ELSE [err |-> "none", result |-> Organize(messages, levels, reverse, 1)]

NoOrganization ==
    [called |-> FALSE, messages |-> <<>>, levels |-> <<>>, reverse |-> None,
     err |-> "none", result |-> <<>>]

\* lines 273-275 as they would be with the loop over the objects outside the
\* loop over the checks
RECURSIVE NextPairObjectMajor(_, _, _, _)
NextPairObjectMajor(checks, objects, c, o) ==
    IF o > Len(objects) THEN <<Len(checks) + 1, 1>>
    ELSE IF c > Len(checks) THEN NextPairObjectMajor(checks, objects, 1, o + 1)
    ELSE IF IsSubclass(objects[o], NeurodataType(checks[c])) THEN <<c, o>>
    ELSE NextPairObjectMajor(checks, objects, c + 1, o)

\* ------------------------------------------------------------ inspect_all
\* most .nwb files in the directory, most entries of `modules`
MaxFiles == 2
MaxModules == 2

\* available_checks when inspect_all is called: the checks registered by the
\* package itself
BuiltinChecks == <<"check_session_start_time_future_date">>

\* the modules a caller can name in `modules`
ExternalModules == {"module_a", "module_b"}

\* the check function a module registers when it is imported; the check
\* functions of the model stand for those of such modules
ModuleCheck(m) ==
    IF m = "module_a" THEN "check_experimenter_form" ELSE "check_regular_timestamps"

\* the values of `modules`; None is taken as []
ModuleArgs == SeqsUpTo(ExternalModules, MaxModules)

\* the .nwb files inspect_all finds at `path`: those of a directory, the one
\* file, or -1 for a path that is neither
PathArgs == (0..MaxFiles) \cup {-1}

\* lines 186-187: importlib.import_module runs a module's decorators the first
\* time only
ImportModule(available, m) ==
    IF InList(ModuleCheck(m), available) THEN available
    ELSE Append(available, ModuleCheck(m))

NoRun ==
    [pc |-> "idle", modules |-> <<>>, imported |-> 0, available |-> BuiltinChecks,
     config |-> None, ignore |-> None, select |-> None, thr |-> "BEST_PRACTICE_SUGGESTION",
     nfiles |-> 0, configured |-> FALSE, candidates |-> <<>>,
     before |-> [r \in Rules |-> DefaultImportance(r)], checks |-> <<>>,
     applied |-> <<>>, computed |-> 0, late |-> <<>>, err |-> "none"]

\* ------------------------------------------------------------ run_checks
\* lines 273-275: the first (check, object) pair at or after position (c, o),
\* checks in the outer loop, whose object is an instance of the check's
\* neurodata_type; <<Len(checks) + 1, 1>> when there is none.
RECURSIVE NextPair(_, _, _, _)
NextPair(checks, objects, c, o) ==
    IF c > Len(checks) THEN <<Len(checks) + 1, 1>>
    ELSE IF o > Len(objects) THEN NextPair(checks, objects, c + 1, 1)
    ELSE IF IsSubclass(objects[o], NeurodataType(checks[c])) THEN <<c, o>>
    ELSE NextPair(checks, objects, c, o + 1)

\* ---------------------------------------------------------------- state
VARIABLES
    importance,   \* check.importance of every registered check function
    call,         \* the arguments and the result of the configure_checks call
    pc,           \* where the caller / the inspect_nwb generator is
    file,         \* the file inspected: validation errors, whether io.read() succeeds, objects
    active,       \* inspect_nwb's `checks` after configure_checks
    stream,       \* the messages inspect_nwb has yielded
    vi,           \* validation errors yielded so far
    pos,          \* run_checks: <<index in checks, index in objects>> to go on from
    output,       \* run_checks: the iterable `output` being iterated
    invoked,      \* the calls check_function(nwbfile_object) made, in order, and what each did
    exc,          \* the exception that reached the caller, "none" if none
    s3,           \* get_s3_urls_and_dandi_paths: its arguments, the assets done, its dict
    registry,     \* the check registry: the functions registered, in registration order
    reg,          \* the last use of register_check and what it did
    org,          \* the organize_messages call: its arguments and what it returned
    run           \* the inspect_all call: its arguments, available_checks, the lists it used

vars == <<importance, call, pc, file, active, stream, vi, pos, output, invoked, exc,
          s3, registry, reg, org, run>>

engine == <<file, active, stream, vi, pos, output, invoked, exc>>

\* the variables of configure_checks and inspect_nwb
inspector == <<importance, call, pc, engine>>

\* the variables of the helper functions
tools == <<s3, registry, reg, org, run>>

NoCall ==
    [checks |-> <<>>, config |-> None, ignore |-> None, select |-> None,
     thr |-> "BEST_PRACTICE_SUGGESTION", before |-> [r \in Rules |-> DefaultImportance(r)],
     err |-> "none", out |-> <<>>]

NoFile == [validation |-> <<>>, readOK |-> TRUE, objects |-> <<>>]

NoOutput == [check |-> "None", object |-> 0, next |-> 1, n |-> 0, raises |-> FALSE]

Init ==
    /\ importance = [r \in Rules |-> DefaultImportance(r)]
    /\ call = NoCall
    /\ pc = "idle"
    /\ file = NoFile
    /\ active = <<>>
    /\ stream = <<>>
    /\ vi = 0
    /\ pos = <<1, 1>>
    /\ output = NoOutput
    /\ invoked = <<>>
    /\ exc = "none"
    /\ s3 = NoS3
    /\ registry = <<>>
    /\ reg = NoRegistration
    /\ org = NoOrganization
    /\ run = NoRun

CallRecord(checks, config, ignore, select, thr, r) ==
    [checks |-> checks, config |-> config, ignore |-> ignore, select |-> select,
     thr |-> thr, before |-> importance, err |-> r.err, out |-> r.out]

\* ------------------------------------------------- configure_checks calls
\* One call of configure_checks with at most one of select / ignore given.
Configure ==
    /\ pc = "idle"
    /\ \E checks \in CheckLists, config \in ConfigArgs, names \in NameArgs,
          which \in {"select", "ignore"}, thr \in Thresholds :
          LET select == IF which = "select" THEN names ELSE None
              ignore == IF which = "ignore" THEN names ELSE None
              r == ConfigureChecks(checks, config, ignore, select, thr, importance)
          IN  /\ importance' = r.imp
              /\ call' = CallRecord(checks, config, ignore, select, thr, r)
              /\ pc' = "configured"
    /\ UNCHANGED <<engine, tools>>

\* One call of configure_checks with both select and ignore given.
ConfigureBoth ==
    /\ pc = "idle"
    /\ \E checks \in CheckLists, select \in NameArgs \ {None},
          ignore \in NameArgs \ {None}, thr \in Thresholds :
          LET r == ConfigureChecks(checks, None, ignore, select, thr, importance)
          IN  /\ importance' = r.imp
              /\ call' = CallRecord(checks, None, ignore, select, thr, r)
              /\ pc' = "configured"
    /\ UNCHANGED <<engine, tools>>

\* The caller has taken the result (or the exception); the registry stays as the
\* call left it.
Return ==
    /\ pc = "configured"
    /\ pc' = "idle"
    /\ call' = NoCall
    /\ UNCHANGED <<importance, engine, tools>>

NextCfg == Configure \/ ConfigureBoth \/ Return

SpecCfg == Init /\ [][NextCfg]_vars

\* ------------------------------------------------------------ inspect_nwb
\* the files: the first n errors of the validator, io.read() succeeding or
\* not, and the classes of nwbfile.objects.values() in iteration order
Files ==
    [validation : {[k \in 1..n |-> ValidationError(k)] : n \in 0..MaxValidation},
     readOK : BOOLEAN,
     objects : DistinctSeqs(ObjectTypes, MaxObjects)]

\* the arguments inspect_nwb is called with
InspectChecks == DistinctSeqs(Rules, MaxChecks)
InspectConfigs ==
    {None,
     Some(<<[key |-> "SKIP", names |-> {"check_experimenter_form"}]>>),
     Some(<<[key |-> "CRITICAL", names |-> {"check_experimenter_form"}]>>),
     Some(<<[key |-> "BEST_PRACTICE_SUGGESTION",
             names |-> {"check_session_start_time_future_date"}]>>),
     Some(<<[key |-> "NOT_A_LEVEL", names |-> {"check_session_start_time_future_date"}]>>)}
InspectOptions ==
    {[ignore |-> None, select |-> None],
     [ignore |-> Some(<<"check_experimenter_form">>), select |-> None],
     [ignore |-> Some(<<"check_experimenter_form">>),
      select |-> Some(<<"check_regular_timestamps">>)]}
InspectThresholds == Thresholds

\* lines 234-240, the first resumption of the generator up to the validation:
\* importance_threshold is not None, so configure_checks is called; what it
\* raises reaches the caller before the file is opened.
InspectNwb ==
    /\ pc = "idle"
    /\ \E checks \in InspectChecks, config \in InspectConfigs, opt \in InspectOptions,
          thr \in InspectThresholds, f \in Files :
          LET r == ConfigureChecks(checks, config, opt.ignore, opt.select, thr, importance)
          IN  /\ importance' = r.imp
              /\ call' = CallRecord(checks, config, opt.ignore, opt.select, thr, r)
              /\ file' = f
              /\ IF r.err # "none"
                 THEN /\ pc' = "raised"
                      /\ exc' = r.err
                      /\ active' = <<>>
                 ELSE /\ pc' = "validate"
                      /\ exc' = "none"
                      /\ active' = r.out
    /\ UNCHANGED <<stream, vi, pos, output, invoked, tools>>

\* lines 241-250 as they would be if the threshold applied to the validation
\* messages as well, with PYNWB_VALIDATION ranked below CRITICAL
YieldValidationAboveThreshold ==
    /\ pc = "validate"
    /\ vi < Len(file.validation)
    /\ stream' = IF call.thr = "CRITICAL"
                 THEN stream
                 ELSE Append(stream, ValidationMessage(file.validation[vi + 1]))
    /\ vi' = vi + 1
    /\ UNCHANGED <<importance, call, pc, file, active, pos, output, invoked, exc, tools>>

\* lines 241-250: one message for the next validation error
YieldValidation ==
    /\ pc = "validate"
    /\ vi < Len(file.validation)
    /\ stream' = Append(stream, ValidationMessage(file.validation[vi + 1]))
    /\ vi' = vi + 1
    /\ UNCHANGED <<importance, call, pc, file, active, pos, output, invoked, exc, tools>>

\* Read as it would be if the checks ran only for a file without validation
\* errors.
ReadSkippingChecksAfterValidationErrors ==
    /\ pc = "validate"
    /\ vi = Len(file.validation)
    /\ file.readOK
    /\ pc' = IF vi = 0 THEN "run" ELSE "done"
    /\ pos' = <<1, 1>>
    /\ UNCHANGED <<importance, call, file, active, stream, vi, output, invoked, exc, tools>>

\* lines 251-252: io.read() returns the NWBFile; run_checks starts
Read ==
    /\ pc = "validate"
    /\ vi = Len(file.validation)
    /\ file.readOK
    /\ pc' = "run"
    /\ pos' = <<1, 1>>
    /\ UNCHANGED <<importance, call, file, active, stream, vi, output, invoked, exc, tools>>

\* lines 253-258: io.read() raises; the except clause yields one message
ReadFails ==
    /\ pc = "validate"
    /\ vi = Len(file.validation)
    /\ ~file.readOK
    /\ stream' = Append(stream, ReadErrorMessage)
    /\ pc' = "read failed"
    /\ UNCHANGED <<importance, call, file, active, vi, pos, output, invoked, exc, tools>>

\* line 259 after the except clause: the local nwbfile was never assigned, so
\* evaluating run_checks(nwbfile, ...) raises UnboundLocalError
AfterReadFails ==
    /\ pc = "read failed"
    /\ pc' = "raised"
    /\ exc' = "UnboundLocalError"
    /\ UNCHANGED <<importance, call, file, active, stream, vi, pos, output, invoked, tools>>

\* lines 273-290 with 259-261: the next check function whose neurodata_type the
\* next object has is called inside try.  An exception of the call becomes an
\* ERROR message; None yields nothing; an InspectorMessage is yielded; an
\* iterable is kept to be iterated.
Dispatch ==
    /\ pc = "run"
    /\ LET p == NextPair(active, file.objects, pos[1], pos[2])
       IN  /\ p[1] <= Len(active)
           /\ \E out \in Outcomes(active[p[1]]) :
                 /\ invoked' = Append(invoked,
                        [check |-> active[p[1]], object |-> p[2], kind |-> out.kind,
                         n |-> out.n, raises |-> out.raises])
                 /\ CASE out.kind = "raise" ->
                           /\ stream' = Append(stream, SetFile(CheckErrorMessage(active[p[1]])))
                           /\ pos' = <<p[1], p[2] + 1>>
                           /\ UNCHANGED <<pc, output>>
                      [] out.kind = "none" ->
                           /\ pos' = <<p[1], p[2] + 1>>
                           /\ UNCHANGED <<pc, output, stream>>
                      [] out.kind = "message" ->
                           /\ stream' = Append(stream,
                                  SetFile(Finding(active[p[1]], p[2], 1, importance)))
                           /\ pos' = <<p[1], p[2] + 1>>
                           /\ UNCHANGED <<pc, output>>
                      [] out.kind = "iterable" ->
                           /\ output' = [check |-> active[p[1]], object |-> p[2], next |-> 1,
                                         n |-> out.n, raises |-> out.raises]
                           /\ pos' = <<p[1], p[2]>>
                           /\ pc' = "iterate"
                           /\ UNCHANGED stream
    /\ UNCHANGED <<importance, call, file, active, vi, exc, tools>>

\* lines 287-288 as they would be if the findings of an iterable were yielded
\* last first
YieldNextLastFirst ==
    /\ pc = "iterate"
    /\ output.next <= output.n
    /\ stream' = Append(stream,
           SetFile(Finding(output.check, output.object,
                           output.n - output.next + 1, importance)))
    /\ output' = [output EXCEPT !.next = @ + 1]
    /\ UNCHANGED <<importance, call, pc, file, active, vi, pos, invoked, exc, tools>>

\* lines 287-288 with 260-261: the iterable gives its next finding
YieldNext ==
    /\ pc = "iterate"
    /\ output.next <= output.n
    /\ stream' = Append(stream,
           SetFile(Finding(output.check, output.object, output.next, importance)))
    /\ output' = [output EXCEPT !.next = @ + 1]
    /\ UNCHANGED <<importance, call, pc, file, active, vi, pos, invoked, exc, tools>>

\* line 287: the iterable is exhausted; the loops go on
IterationEnds ==
    /\ pc = "iterate"
    /\ output.next > output.n
    /\ ~output.raises
    /\ output' = NoOutput
    /\ pos' = <<pos[1], pos[2] + 1>>
    /\ pc' = "run"
    /\ UNCHANGED <<importance, call, file, active, stream, vi, invoked, exc, tools>>

\* line 287: the iterable raises; the for statement is outside the try of
\* lines 276-284, so the exception leaves run_checks and inspect_nwb
IterationRaises ==
    /\ pc = "iterate"
    /\ output.next > output.n
    /\ output.raises
    /\ pc' = "raised"
    /\ exc' = "check exception"
    /\ UNCHANGED <<importance, call, file, active, stream, vi, pos, output, invoked, tools>>

\* line 273: the loops are over; the generator ends
Finish ==
    /\ pc = "run"
    /\ NextPair(active, file.objects, pos[1], pos[2])[1] > Len(active)
    /\ pc' = "done"
    /\ UNCHANGED <<importance, call, file, active, stream, vi, pos, output, invoked, exc, tools>>

Next ==
    \/ InspectNwb
    \/ YieldValidation
    \/ Read
    \/ ReadFails
    \/ AfterReadFails
    \/ Dispatch
    \/ YieldNext
    \/ IterationEnds
    \/ IterationRaises
    \/ Finish

Spec == Init /\ [][Next]_vars

\* ------------------------------------------------------------ properties
\* the (check, object) pairs run_checks has to call: positions in `active` and
\* in the objects of the file
MatchingPairs ==
    {p \in (1..Len(active)) \X (1..Len(file.objects)) :
        IsSubclass(file.objects[p[2]], NeurodataType(active[p[1]]))}

Dispatched(p) ==
    \E k \in 1..Len(invoked) :
        invoked[k].check = active[p[1]] /\ invoked[k].object = p[2]

\* the messages of importance ERROR in the stream that name check r
ErrorsNaming(r) ==
    SelectSeq(stream, LAMBDA m : m.importance = "ERROR" /\ m.check_function_name = <<r, 0>>)

\* the calls of check r that failed, when called or while being iterated
FailedCalls(r) == SelectSeq(invoked, LAMBDA e : e.check = r /\ e.raises)

\* the stream's messages of importance PYNWB_VALIDATION
ValidationMessages == SelectSeq(stream, LAMBDA m : m.importance = "PYNWB_VALIDATION")

\* C1: a check function that fails, when called or while its findings are
\* being iterated, never makes an exception reach the caller of the
\* inspection, and between two (check, object) pairs the stream holds exactly
\* one ERROR message naming the check for each of its failed calls.
C1_CheckFailureBecomesOneError ==
    /\ exc # "check exception"
    /\ pc \in {"run", "done"} =>
          \A r \in Rules : Len(ErrorsNaming(r)) = Len(FailedCalls(r))

\* C2: when the inspection of a file has ended and some call of a check
\* function failed, every (check, object) pair of the active checks and the
\* file's objects has been dispatched.
C2_FailingCheckDoesNotBlock ==
    (pc \in {"done", "raised"} /\ \E k \in 1..Len(invoked) : invoked[k].raises)
        => \A p \in MatchingPairs : Dispatched(p)

\* C3: when io.read() fails, the inspection ends normally: the generator
\* finishes without an exception, having yielded exactly one ERROR message
\* and called no check function.
C3_ReadFailureEndsNormally ==
    (call.err = "none" /\ ~file.readOK /\ pc \notin {"idle", "validate"})
        => /\ pc \in {"read failed", "done"}
           /\ exc = "none"
           /\ invoked = <<>>
           /\ Len(SelectSeq(stream, LAMBDA m : m.importance = "ERROR")) = 1

\* C4: the PYNWB_VALIDATION messages yielded are, in order, one per validation
\* error reported so far, each with that error's reason, name and location;
\* once the validation is over there is one per error of the file, and when
\* io.read() succeeded the checks are dispatched whatever the number of
\* validation errors: a finished inspection has called every check on every
\* object of its neurodata_type.
C4_ValidationOneToOne ==
    /\ Len(ValidationMessages) = vi
    /\ \A k \in 1..vi :
          /\ ValidationMessages[k].message = file.validation[k].reason
          /\ ValidationMessages[k].check_function_name = file.validation[k].name
          /\ ValidationMessages[k].location = file.validation[k].location
    /\ pc \in {"read failed", "run", "iterate", "done"} => vi = Len(file.validation)
    /\ pc \in {"run", "iterate", "done"} => file.readOK
    /\ pc = "done" => \A p \in MatchingPairs : Dispatched(p)

\* C4 witness: a finished inspection of a file with validation errors whose
\* checks produced findings.
C4_Witness ==
    /\ pc = "done"
    /\ Len(file.validation) = MaxValidation
    /\ Len(ValidationMessages) = MaxValidation
    /\ \E k \in 1..Len(stream) : stream[k].importance \in OrdinaryLevels

\* C5: a call of configure_checks with both select and ignore given raises
\* ValueError and returns no list, whatever the two lists hold.
C5_SelectAndIgnoreConflict ==
    (pc = "configured" /\ call.select.given /\ call.ignore.given)
        => call.err = "ValueError" /\ call.out = <<>>

\* C5 witness: such a call with two non-empty lists has raised.
C5_Witness ==
    /\ pc = "configured"
    /\ Truthy(call.select) /\ Truthy(call.ignore)
    /\ call.select.val # call.ignore.val
    /\ call.err = "ValueError"

\* C6: a check named under the "SKIP" key of config is not in the list
\* configure_checks returns.
C6_SkippedCheckIsAbsent ==
    (pc = "configured" /\ call.err = "none" /\ call.config.given)
        => \A i \in 1..Len(call.config.val) :
              call.config.val[i].key = "SKIP"
                  => \A name \in call.config.val[i].names : ~InList(name, call.out)

\* C7: a call of configure_checks whose importance_threshold is not one of
\* the three ordinary levels raises ValueError.
C7_ThresholdMustBeOrdinary ==
    (pc = "configured" /\ call.thr \notin OrdinaryLevels) => call.err = "ValueError"

\* C8: after configure_checks returned, every check of its result has an
\* importance, as the config left it, at or above the threshold, and every
\* check of the input at or above it that select, ignore and "SKIP" do not
\* concern is in the result; at threshold CRITICAL the checks of the result
\* are CRITICAL ones and so is the check named by any message of the
\* inspection that names a check.
C8_ThresholdOnEffectiveImportance ==
    (pc # "idle" /\ call.err = "none") =>
        /\ \A k \in 1..Len(call.out) :
              ImportanceValue(importance[call.out[k]]) >= ImportanceValue(call.thr)
        /\ \A k \in 1..Len(call.checks) :
              ( /\ ~call.select.given /\ ~call.ignore.given
                /\ ~(call.config.given /\ \E i \in 1..Len(call.config.val) :
                         call.config.val[i].key = "SKIP"
                         /\ call.checks[k] \in call.config.val[i].names)
                /\ ImportanceValue(importance[call.checks[k]]) >= ImportanceValue(call.thr) )
              => InList(call.checks[k], call.out)
        /\ call.thr = "CRITICAL" =>
              /\ \A k \in 1..Len(call.out) :
                    importance[call.out[k]] \in OrdinaryLevels
                        => importance[call.out[k]] = "CRITICAL"
              /\ \A k \in 1..Len(stream) : \A r \in Rules :
                    stream[k].check_function_name = <<r, 0>> => importance[r] = "CRITICAL"

\* C8 witness: a finished inspection at threshold CRITICAL whose config raised
\* check_experimenter_form to CRITICAL, which dropped a check of the input
\* and yielded a finding of check_experimenter_form.
C8_Witness ==
    /\ pc = "done"
    /\ call.thr = "CRITICAL"
    /\ call.config.given
    /\ Len(call.out) < Len(call.checks)
    /\ \E k \in 1..Len(stream) :
          /\ stream[k].check_function_name = <<"check_experimenter_form", 0>>
          /\ stream[k].importance = "CRITICAL"

\* a is b with some elements left out
RECURSIVE Embeds(_, _, _, _)
Embeds(a, i, b, j) ==
    IF i > Len(a) THEN TRUE
    ELSE IF j > Len(b) THEN FALSE
    ELSE IF a[i] = b[j] THEN Embeds(a, i + 1, b, j + 1)
    ELSE Embeds(a, i, b, j + 1)

\* C9: the list configure_checks returns is the input list with some
\* elements left out: nothing added, nothing repeated, nothing reordered.
C9_OutputIsSubsequence ==
    (pc = "configured" /\ call.err = "none") => Embeds(call.out, 1, call.checks, 1)

\* C9 witness: a call with config, select and a threshold that kept two checks
\* which select names in the other order.
C9_Witness ==
    /\ pc = "configured"
    /\ call.err = "none"
    /\ call.config.given
    /\ Len(call.out) = 2
    /\ call.out[1] # call.out[2]
    /\ call.select.given
    /\ call.select.val = <<call.out[2], call.out[1]>>

\* C10: with select given, no config and the default threshold,
\* configure_checks returns exactly the input checks that select names, in
\* input order.
C10_SelectKeepsExactlyTheNamed ==
    ( /\ pc = "configured"
      /\ call.select.given /\ ~call.ignore.given /\ ~call.config.given
      /\ call.thr = "BEST_PRACTICE_SUGGESTION" )
        => /\ call.err = "none"
           /\ call.out = SelectSeq(call.checks, LAMBDA x : InList(x, call.select.val))

\* what the configure_checks call of the record would have returned had ignore
\* not been given
OutWithoutIgnore ==
    ConfigureChecks(call.checks, call.config, None, call.select, call.thr, call.before).out

\* C11: after a configure_checks call with ignore given that returned, no
\* check named in ignore is in the result, every other check of the input
\* whose importance is at or above the threshold is, and the result is what
\* the call without ignore returns with the ignored checks left out; the
\* inspection calls no ignored check and yields no message naming one.
C11_IgnoredChecksAreAbsent ==
    (pc # "idle" /\ call.ignore.given /\ call.err = "none") =>
        /\ \A k \in 1..Len(call.ignore.val) : ~InList(call.ignore.val[k], call.out)
        /\ \A k \in 1..Len(call.checks) :
              ( /\ ~InList(call.checks[k], call.ignore.val)
                /\ ImportanceValue(importance[call.checks[k]]) >= ImportanceValue(call.thr) )
              => InList(call.checks[k], call.out)
        /\ call.out = SelectSeq(OutWithoutIgnore, LAMBDA x : ~InList(x, call.ignore.val))
        /\ \A k \in 1..Len(invoked) : ~InList(invoked[k].check, call.ignore.val)
        /\ \A k \in 1..Len(stream) : \A i \in 1..Len(call.ignore.val) :
              stream[k].check_function_name # <<call.ignore.val[i], 0>>

\* C11 witness: a finished inspection whose ignore named a check of the input
\* with an object of its neurodata_type in the file, and whose other check
\* yielded a message.
C11_Witness ==
    /\ pc = "done"
    /\ call.ignore.given
    /\ \E k \in 1..Len(call.checks) :
          /\ InList(call.checks[k], call.ignore.val)
          /\ \E o \in 1..Len(file.objects) :
                IsSubclass(file.objects[o], NeurodataType(call.checks[k]))
    /\ Len(call.out) = 1
    /\ \E k \in 1..Len(stream) : stream[k].check_function_name = <<call.out[1], 0>>

\* the .importance attributes the check functions were registered with
RegisteredImportance == [r \in Rules |-> DefaultImportance(r)]

\* C12: configure_checks leaves the .importance attribute of every registered
\* check function as it was registered, so a call without config returns what
\* it returns on the registry as registered.
C12_RegistryIsNeverMutated ==
    /\ importance = RegisteredImportance
    /\ (pc = "configured" /\ ~call.config.given) =>
          call.out = ConfigureChecks(call.checks, None, call.ignore, call.select,
                                     call.thr, RegisteredImportance).out

\* the configure_checks call of the record has a key in config that is neither
\* one of the three ordinary levels nor "SKIP"
UnknownConfigKey ==
    /\ call.config.given
    /\ \E i \in 1..Len(call.config.val) :
          call.config.val[i].key \notin OrdinaryLevels \cup {"SKIP"}

\* the arguments of the call are invalid: select and ignore both given, a
\* threshold that is no ordinary level, or an unknown key in config
ConfigurationInvalid ==
    \/ call.select.given /\ call.ignore.given
    \/ call.thr \notin OrdinaryLevels
    \/ UnknownConfigKey

\* C13: when the arguments of inspect_nwb are an invalid configuration, the
\* call raises before anything is inspected: the exception reaches the caller,
\* the file is not validated or read, no check function is called and no
\* message is yielded.
C13_ConfigurationErrorsComeFirst ==
    (pc # "idle" /\ ConfigurationInvalid) =>
        /\ pc = "raised"
        /\ exc \in {"ValueError", "KeyError"}
        /\ stream = <<>>
        /\ invoked = <<>>

\* the calls of check r that raised when called
RaisedCalls(r) == SelectSeq(invoked, LAMBDA e : e.check = r /\ e.kind = "raise")

\* C14: whatever the threshold of the call, the stream holds one
\* PYNWB_VALIDATION message per validation error reported, all of them once
\* the validation is over, the ERROR message of a failed io.read(), and one
\* ERROR message naming the check for every call of a check of the result
\* that raised.
C14_ReservedLevelsIgnoreThreshold ==
    \A thr \in Importance :
        (pc # "idle" /\ call.err = "none" /\ call.thr = thr) =>
            /\ ValidationMessages = [k \in 1..vi |-> ValidationMessage(file.validation[k])]
            /\ pc \notin {"validate", "raised"} => vi = Len(file.validation)
            /\ pc = "read failed" =>
                  /\ vi = Len(file.validation)
                  /\ stream[Len(stream)] = ReadErrorMessage
            /\ \A r \in Rules :
                  /\ Len(RaisedCalls(r)) > 0 => InList(r, active)
                  /\ Len(ErrorsNaming(r)) = Len(RaisedCalls(r))
                  /\ \A k \in 1..Len(ErrorsNaming(r)) :
                        ErrorsNaming(r)[k] = SetFile(CheckErrorMessage(r))

\* C14 witness: a finished inspection at threshold CRITICAL whose stream holds
\* the message of every validation error and the ERROR message of a check
\* that raised.
C14_Witness ==
    /\ pc = "done"
    /\ call.thr = "CRITICAL"
    /\ Len(file.validation) = MaxValidation
    /\ Len(ValidationMessages) = MaxValidation
    /\ \E r \in Rules : Len(RaisedCalls(r)) > 0 /\ Len(ErrorsNaming(r)) > 0

\* run_checks is over: its loops ended, or an exception left it
RunOver == pc = "done" \/ (pc = "raised" /\ exc = "check exception")

\* C19: run_checks calls only checks of the active list on objects that are
\* instances of the check's neurodata_type, no (check, object) pair twice, and
\* when the run is over every such pair has been called.
C19_EachMatchingPairOnce ==
    /\ \A k \in 1..Len(invoked) :
          /\ InList(invoked[k].check, active)
          /\ invoked[k].object \in 1..Len(file.objects)
          /\ IsSubclass(file.objects[invoked[k].object], NeurodataType(invoked[k].check))
    /\ \A j, k \in 1..Len(invoked) :
          (invoked[j].check = invoked[k].check /\ invoked[j].object = invoked[k].object)
              => j = k
    /\ RunOver => \A p \in MatchingPairs : Dispatched(p)

\* lines 285-290 with 260-261: the messages the k-th call of `invoked` has
\* contributed to the stream so far.  An iterable that is still being
\* iterated has given its first output.next - 1 findings.
Contribution(k) ==
    LET e == invoked[k]
        m == IF k = Len(invoked) /\ pc = "iterate" THEN output.next - 1 ELSE e.n
    IN  CASE e.kind = "raise" -> <<SetFile(CheckErrorMessage(e.check))>>
          [] e.kind = "none" -> <<>>
          [] e.kind = "message" -> <<SetFile(Finding(e.check, e.object, 1, importance))>>
          [] e.kind = "iterable" ->
                [j \in 1..m |-> SetFile(Finding(e.check, e.object, j, importance))]

\* the contributions of the calls k, k + 1, ... of `invoked`, one after the other
RECURSIVE ContributionsFrom(_)
ContributionsFrom(k) ==
    IF k > Len(invoked) THEN <<>> ELSE Contribution(k) \o ContributionsFrom(k + 1)

\* C20: after the messages of the validation, the stream of an inspection
\* whose file was read is the concatenation, call after call in the order of
\* the calls, of what each call of a check function gave: nothing for None,
\* the one message for an InspectorMessage, the findings in the order the
\* iterable produced them for an iterable; no message of another call lies
\* between the messages of one call.
C20_ResultsAreContiguousRuns ==
    (pc \in {"run", "iterate", "done"} \/ (pc = "raised" /\ exc = "check exception")) =>
        SubSeq(stream, vi + 1, Len(stream)) = ContributionsFrom(1)

\* C20 witness: a finished inspection after validation errors in which an
\* iterable gave MaxFindings findings and the call after it gave one message.
C20_Witness ==
    /\ pc = "done"
    /\ vi > 0
    /\ Len(invoked) = 2
    /\ invoked[1].kind = "iterable" /\ invoked[1].n = MaxFindings
    /\ invoked[2].kind = "message"
    /\ Len(stream) = vi + MaxFindings + 1

\* ------------------------------------- get_s3_urls_and_dandi_paths calls
\* lines 37-52: the assert on dandiset_id; then the assets of the dandiset are
\* listed and, for n_jobs != 1, one future per asset is submitted
GetS3UrlsAndDandiPaths ==
    /\ s3.pc = "idle"
    /\ \E valid \in BOOLEAN, n_jobs \in NJobs, assets \in AssetLists :
          s3' = IF valid
                THEN [pc |-> "collect", valid |-> TRUE, n_jobs |-> n_jobs,
                      assets |-> assets, done |-> {}, urls |-> EmptyDict]
                ELSE [NoS3 EXCEPT !.pc = "raised", !.valid = FALSE, !.n_jobs = n_jobs]
    /\ UNCHANGED <<inspector, registry, reg, org, run>>

\* lines 53-54: as_completed(futures) gives the futures in the order in which
\* the workers finish them, which is any order
FutureCompletes ==
    /\ s3.pc = "collect"
    /\ s3.n_jobs # 1
    /\ \E i \in (1..Len(s3.assets)) \ s3.done :
          s3' = [s3 EXCEPT !.done = @ \cup {i}, !.urls = Update(@, s3.assets[i])]
    /\ UNCHANGED <<inspector, registry, reg, org, run>>

\* lines 57-58: with one job the assets are taken in the order of get_assets()
NextAsset ==
    /\ s3.pc = "collect"
    /\ s3.n_jobs = 1
    /\ Cardinality(s3.done) < Len(s3.assets)
    /\ LET i == Cardinality(s3.done) + 1
       IN  s3' = [s3 EXCEPT !.done = @ \cup {i}, !.urls = Update(@, s3.assets[i])]
    /\ UNCHANGED <<inspector, registry, reg, org, run>>

\* line 59
ReturnUrls ==
    /\ s3.pc = "collect"
    /\ s3.done = 1..Len(s3.assets)
    /\ s3' = [s3 EXCEPT !.pc = "returned"]
    /\ UNCHANGED <<inspector, registry, reg, org, run>>

NextS3 == GetS3UrlsAndDandiPaths \/ FutureCompletes \/ NextAsset \/ ReturnUrls

SpecS3 == Init /\ [][NextS3]_vars

\* C18: a call of get_s3_urls_and_dandi_paths with a valid dandiset_id never
\* raises because of two assets with the same URL, and with n_jobs != 1 the
\* dict it returns is the same whatever the order in which the futures
\* completed: the one the order of get_assets() gives.
C18_MappingIndependentOfCompletionOrder ==
    /\ s3.valid => s3.pc # "raised"
    /\ (s3.pc = "returned" /\ s3.n_jobs # 1) =>
          s3.urls = UpdateInOrder(EmptyDict, s3.assets, 1)

\* ------------------------------------------------- register_check calls
\* A module of checks is imported or reloaded: the decorator registers one of
\* its functions.
Register ==
    \E f \in Functions :
        LET r == RegisterCheck(registry, f)
        IN  /\ registry' = r.catalog
            /\ reg' = [called |-> TRUE, f |-> f, before |-> registry, err |-> r.err]
            /\ UNCHANGED <<inspector, s3, org, run>>

NextReg == Register

SpecReg == Init /\ [][NextReg]_vars

\* C17: the registry binds a name once: every binding it had before a
\* register call is there after it, at the same place; registering the
\* function a name is bound to raises nothing and leaves the registry as it
\* was, and registering another function under a bound name raises
\* DuplicateNameError and leaves the registry as it was.
C17_BindingsNeverChange ==
    /\ \A j, k \in 1..Len(registry) : registry[j].name = registry[k].name => j = k
    /\ reg.called =>
          /\ Len(reg.before) <= Len(registry)
          /\ \A k \in 1..Len(reg.before) : registry[k] = reg.before[k]
          /\ (Bound(reg.before, reg.f.name) /\ Binding(reg.before, reg.f.name) = reg.f)
                => reg.err = "none" /\ registry = reg.before
          /\ (Bound(reg.before, reg.f.name) /\ Binding(reg.before, reg.f.name) # reg.f)
                => reg.err = "DuplicateNameError" /\ registry = reg.before

\* C17 witness: with every name bound, another function was registered under
\* a bound name and the call failed.
C17_Witness ==
    /\ reg.called
    /\ Len(registry) = Cardinality(Rules)
    /\ Bound(reg.before, reg.f.name)
    /\ Binding(reg.before, reg.f.name) # reg.f
    /\ reg.err = "DuplicateNameError"

\* ------------------------------------------------ organize_messages calls
OrganizeMessages ==
    /\ ~org.called
    /\ \E messages \in MessageLists, levels \in LevelLists :
          \E reverse \in ReverseArgs(levels) :
             LET r == OrganizeMessagesCall(messages, levels, reverse)
             IN  org' = [called |-> TRUE, messages |-> messages, levels |-> levels,
                         reverse |-> reverse, err |-> r.err, result |-> r.result]
    /\ UNCHANGED <<inspector, s3, registry, reg, run>>

\* the caller has taken the result
OrganizeReturns ==
    /\ org.called
    /\ org' = NoOrganization
    /\ UNCHANGED <<inspector, s3, registry, reg, run>>

NextOrg == OrganizeMessages \/ OrganizeReturns

SpecOrg == Init /\ [][NextOrg]_vars

\* the entry of the result is the leaf the message belongs to: its keys are
\* the message's own values of the levels
OwnLeaf(e, m) == \A d \in 1..Len(org.levels) : e.path[d] = Attr(m, org.levels[d])

\* C15: the mapping organize_messages returns has one key per level on the way
\* to every leaf; no two leaves have the same keys and no leaf is empty; every
\* message of the input is at exactly one place of exactly one leaf, the leaf
\* of its own values of the levels; every message of a leaf is a message of
\* the input; and the messages of a leaf are in input order.
C15_OrganizeIsStablePartition ==
    (org.called /\ org.err = "none") =>
        LET res == org.result
            places(m) == {p \in (1..Len(res)) \X (1..Len(org.messages)) :
                              p[2] <= Len(res[p[1]].messages)
                              /\ res[p[1]].messages[p[2]] = m}
        IN  /\ \A e \in 1..Len(res) :
                  /\ Len(res[e].path) = Len(org.levels)
                  /\ Len(res[e].messages) > 0
                  /\ \A j \in 1..Len(res[e].messages) :
                        \E i \in 1..Len(org.messages) : res[e].messages[j] = org.messages[i]
                  /\ res[e].messages =
                        SelectSeq(org.messages, LAMBDA m : OwnLeaf(res[e], m))
            /\ \A e, f \in 1..Len(res) : res[e].path = res[f].path => e = f
            /\ \A i \in 1..Len(org.messages) :
                  /\ Cardinality(places(org.messages[i])) = 1
                  /\ \A p \in places(org.messages[i]) : OwnLeaf(res[p[1]], org.messages[i])

\* C15 witness: MaxMessages messages organized by two levels into more than
\* one leaf, one of them with more than one message.
C15_Witness ==
    /\ org.called /\ org.err = "none"
    /\ Len(org.levels) = 2
    /\ Len(org.messages) = MaxMessages
    /\ Len(org.result) > 1
    /\ \E e \in 1..Len(org.result) : Len(org.result[e].messages) > 1

\* C16: with a reverse list, of two leaves whose keys agree on the levels
\* before level d and differ at level d, the one that comes first has the key
\* of lower rank when reverse[d] is false and of higher rank when it is true,
\* whatever the other entries of reverse are; importance keys rank by
\* importance, file keys lexically.
C16_ReverseDecidesEachLevel ==
    (org.called /\ org.err = "none" /\ org.reverse.given) =>
        \A a, b \in 1..Len(org.result) : \A d \in 1..Len(org.levels) :
            ( /\ a < b
              /\ SubSeq(org.result[a].path, 1, d - 1) = SubSeq(org.result[b].path, 1, d - 1)
              /\ org.result[a].path[d] # org.result[b].path[d] )
            => IF org.reverse.val[d]
               THEN KeyRank(org.levels[d], org.result[a].path[d])
                        > KeyRank(org.levels[d], org.result[b].path[d])
               ELSE KeyRank(org.levels[d], org.result[a].path[d])
                        < KeyRank(org.levels[d], org.result[b].path[d])

\* C16 witness: levels [importance, file] with reverse [False, True]: two
\* importance keys, and two file keys under the first of them.
C16_Witness ==
    /\ org.called /\ org.err = "none"
    /\ org.levels = <<"importance", "file">>
    /\ org.reverse = Some(<<FALSE, TRUE>>)
    /\ Len(org.result) = 3
    /\ org.result[1].path[1] = org.result[2].path[1]
    /\ org.result[1].path[2] = FileNames[2]
    /\ org.result[2].path[2] = FileNames[1]
    /\ ImportanceValue(org.result[2].path[1]) < ImportanceValue(org.result[3].path[1])

\* C22: all messages one inspect_nwb call has yielded have the same value of
\* the file field, the validation messages, the ERROR message of a failed
\* io.read() and the messages of the check functions alike.
C22_OneFileIdentifierPerCall ==
    \A j, k \in 1..Len(stream) : stream[j].file = stream[k].file

\* lines 273-275: the (check, object) pairs from position (c, o) on in the order
\* of the two loops, the checks outside, the objects inside
RECURSIVE PairsFrom(_, _)
PairsFrom(c, o) ==
    IF c > Len(active) THEN <<>>
    ELSE IF o > Len(file.objects) THEN PairsFrom(c + 1, 1)
    ELSE (IF IsSubclass(file.objects[o], NeurodataType(active[c]))
          THEN << <<c, o>> >> ELSE <<>>)
         \o PairsFrom(c, o + 1)

\* the place of a check in the active list
IndexIn(checks, x) == CHOOSE k \in 1..Len(checks) : checks[k] = x

\* the check function a message of the stream names, if it names one
NamesCheck(m) == \E r \in Rules : m.check_function_name = <<r, 0>>
CheckOf(m) == CHOOSE r \in Rules : m.check_function_name = <<r, 0>>

\* C23: in the stream of one inspection the validation messages are the first
\* vi messages and no later one; the calls of check functions are made in the
\* order of the pairs, all objects of the first active check before the
\* second check, the objects of one check in the order of the file; the
\* messages that name check functions follow the order of the active list,
\* those of one check the order of the objects, those of one call the order
\* of the findings; and the stream after the validation is what the calls
\* gave, one after the other.
C23_PhasesThenRuleMajor ==
    /\ \A k \in 1..Len(stream) : stream[k].importance = "PYNWB_VALIDATION" <=> k <= vi
    /\ Len(invoked) <= Len(PairsFrom(1, 1))
    /\ \A k \in 1..Len(invoked) :
          <<IndexIn(active, invoked[k].check), invoked[k].object>> = PairsFrom(1, 1)[k]
    /\ \A j, k \in 1..Len(stream) :
          (j < k /\ NamesCheck(stream[j]) /\ NamesCheck(stream[k])) =>
              LET a == IndexIn(active, CheckOf(stream[j]))
                  b == IndexIn(active, CheckOf(stream[k]))
              IN  /\ a <= b
                  /\ (a = b /\ stream[j].object # 0 /\ stream[k].object # 0) =>
                        /\ stream[j].object <= stream[k].object
                        /\ stream[j].object = stream[k].object =>
                              stream[j].message[2] < stream[k].message[2]
    /\ (pc \in {"run", "iterate", "done"}) =>
          stream = [k \in 1..vi |-> ValidationMessage(file.validation[k])]
                       \o ContributionsFrom(1)

\* C23 witness: a finished inspection with validation messages in which the
\* first active check was called on the second object of the file and the
\* second check on the first object, and both gave messages.
C23_Witness ==
    /\ pc = "done"
    /\ vi > 0
    /\ Len(invoked) = 2
    /\ invoked[1].object = 2 /\ invoked[2].object = 1
    /\ invoked[1].check = active[1] /\ invoked[2].check = active[2]
    /\ Len(Contribution(1)) > 0 /\ Len(Contribution(2)) > 0
    /\ Len(stream) = vi + Len(Contribution(1)) + Len(Contribution(2))

\* ------------------------------------------------------ inspect_all calls
\* lines 234-237 as they would be if inspect_all did not pass checks=checks:
\* configure_checks on the default, available_checks
InspectNwbChecksFromAvailable(checks, imp) ==
    ConfigureChecks(run.available, None, None, None, "BEST_PRACTICE_SUGGESTION", imp)

\* lines 234-237 in the call of line 192: config, ignore and select are None
\* and importance_threshold is its default, which is not None, so
\* configure_checks is called on the checks passed
InspectNwbChecks(checks, imp) ==
    ConfigureChecks(checks, None, None, None, "BEST_PRACTICE_SUGGESTION", imp)

\* lines 174-184: the arguments; a path that is neither a directory nor a file
\* is a ValueError
InspectAll ==
    /\ run.pc = "idle"
    /\ \E modules \in ModuleArgs, config \in InspectConfigs, opt \in InspectOptions,
          thr \in InspectThresholds, path \in PathArgs :
          run' = IF path = -1
                 THEN [run EXCEPT !.pc = "raised", !.err = "ValueError"]
                 ELSE [run EXCEPT !.pc = "import", !.modules = modules, !.config = config,
                                  !.ignore = opt.ignore, !.select = opt.select,
                                  !.thr = thr, !.nfiles = path]
    /\ UNCHANGED <<inspector, s3, registry, reg, org>>

\* lines 186-187: the next module of `modules` is imported
ImportNext ==
    /\ run.pc = "import"
    /\ run.imported < Len(run.modules)
    /\ run' = [run EXCEPT !.imported = @ + 1,
                          !.available = ImportModule(@, run.modules[run.imported + 1])]
    /\ UNCHANGED <<inspector, s3, registry, reg, org>>

\* line 190: configure_checks on available_checks, its default for `checks`
ConfigureAll ==
    /\ run.pc = "import"
    /\ run.imported = Len(run.modules)
    /\ LET r == ConfigureChecks(run.available, run.config, run.ignore, run.select,
                                run.thr, importance)
       IN  /\ importance' = r.imp
           /\ run' = [run EXCEPT !.pc = IF r.err = "none" THEN "files" ELSE "raised",
                                 !.err = r.err, !.configured = TRUE,
                                 !.candidates = run.available, !.before = importance,
                                 !.checks = r.out, !.computed = @ + 1]
    /\ UNCHANGED <<call, pc, engine, s3, registry, reg, org>>

\* lines 191-193 with 234-237: inspect_nwb for the next file calls
\* configure_checks on the list it is given and inspects the file with the
\* result; an exception of the inspection leaves inspect_all
InspectNextFile ==
    /\ run.pc = "files"
    /\ Len(run.applied) < run.nfiles
    /\ LET r == InspectNwbChecks(run.checks, importance)
       IN  /\ importance' = r.imp
           /\ \E raises \in BOOLEAN :
                 run' = [run EXCEPT !.applied = Append(@, r.out), !.computed = @ + 1,
                                    !.pc = IF raises THEN "raised" ELSE "files",
                                    !.err = IF raises THEN "inspection exception"
                                            ELSE "none"]
    /\ UNCHANGED <<call, pc, engine, s3, registry, reg, org>>

\* Between two messages of the generator the caller imports a module that
\* inspect_all was not asked for: its check is appended to available_checks.
RegisterLate ==
    /\ run.pc = "files"
    /\ \E m \in ExternalModules :
          /\ ~InList(ModuleCheck(m), run.available)
          /\ run' = [run EXCEPT !.available = ImportModule(@, m),
                                !.late = Append(@, ModuleCheck(m))]
    /\ UNCHANGED <<inspector, s3, registry, reg, org>>

\* line 191: no file is left
EndAll ==
    /\ run.pc = "files"
    /\ Len(run.applied) = run.nfiles
    /\ run' = [run EXCEPT !.pc = "done"]
    /\ UNCHANGED <<inspector, s3, registry, reg, org>>

NextAll ==
    \/ InspectAll
    \/ ImportNext
    \/ ConfigureAll
    \/ InspectNextFile
    \/ RegisterLate
    \/ EndAll

SpecAll == Init /\ [][NextAll]_vars

\* the check functions of the modules inspect_all was asked to import
RequestedChecks == {ModuleCheck(run.modules[k]) : k \in 1..Len(run.modules)}

\* C21 as stated: configure_checks is called once in a run of inspect_all,
\* when every module of `modules` has been imported and no file has been
\* inspected, and the list of that call is the list every file is inspected
\* with.
C21_ActiveSetComputedOnce ==
    /\ run.computed <= 1
    /\ run.configured => run.imported = Len(run.modules)
    /\ \A k \in 1..Len(run.applied) : run.configured /\ run.applied[k] = run.checks

\* C21: inspect_all calls configure_checks once itself, when every module of
\* `modules` has been imported and before the first file is inspected, on
\* available_checks, which then holds the checks of those modules; inspect_nwb
\* calls configure_checks once more per file, on that list with the default
\* arguments, and gets it back unchanged, so every file is inspected with the
\* list inspect_all computed; a check registered after that call is in none
\* of the lists.
C21_SameActiveSetForEveryFile ==
    /\ run.computed = (IF run.configured THEN 1 ELSE 0) + Len(run.applied)
    /\ Len(run.applied) > 0 => run.configured
    /\ run.configured =>
          /\ run.imported = Len(run.modules)
          /\ \A r \in RequestedChecks : InList(r, run.candidates)
          /\ run.err \notin {"ValueError", "KeyError"} =>
                run.checks = ConfigureChecks(run.candidates, run.config, run.ignore,
                                             run.select, run.thr, run.before).out
    /\ \A k \in 1..Len(run.applied) : run.applied[k] = run.checks
    /\ \A i \in 1..Len(run.late) :
          /\ ~InList(run.late[i], run.checks)
          /\ \A k \in 1..Len(run.applied) : ~InList(run.late[i], run.applied[k])

\* C21 witness: a finished run over MaxFiles files that imported a module
\* whose check is in the list of every file, with a list that leaves out a
\* registered check, and with a check registered after the first file.
C21_Witness ==
    /\ run.pc = "done"
    /\ Len(run.applied) = MaxFiles
    /\ Len(run.modules) > 0
    /\ \E r \in RequestedChecks : InList(r, run.applied[MaxFiles])
    /\ Len(run.checks) < Len(run.candidates)
    /\ Len(run.late) > 0

====
